---- MODULE Spec2Model ----
(***************************************************************************)
(* Model of MultithreadedStreamingASRExample.cpp: main enumerates the      *)
(* input audio files, loads the shared inference context, and submits one  *)
(* job per input file to a thread pool whose teardown joins the batch.     *)
(* Strings are sequences of one-character strings.                         *)
(***************************************************************************)
EXTENDS Integers, Sequences, FiniteSets, TLC

VARIABLES
    FLAGS_input_audio_files,         \* inline list of input files
    FLAGS_input_audio_file_of_paths, \* name of the file of paths ("" = unset)
    FLAGS_transitions_file,          \* name of the transitions file ("" = unset)
    FLAGS_max_num_threads,           \* pool size
    disk,                \* the files of the run: name -> [exists, content]
    pc,                  \* position of main
    inputFiles,          \* std::vector<std::string> inputFiles
    inputFileCount,      \* inputFiles.size() taken at line 148
    dnnModule,           \* modules added to the composed Sequential, in order
    tokens,              \* std::vector<std::string> tokens
    nTokens,             \* int nTokens
    decoderOptions,      \* decoder options read from the options file
    transitions,         \* std::vector<float> transitions
    decoderFactory,      \* the decoder factory and the transitions given to it
    errorMessage,        \* what() of the runtime_error main died with
    poolCreated,         \* the ThreadPool object exists
    tasks,               \* the pool's FIFO queue of job numbers
    stop,                \* the pool no longer accepts work
    worker,              \* worker thread -> [st, job]
    jobs,                \* the closures enqueued so far, in submission order
    enqueueLog,          \* the "Enqueue input file=" lines written to cout
    processedFilesCount, \* std::atomic<int> processedFilesCount
    prossesingFileNumber,\* job -> value captured from ++processedFilesCount
    increments,          \* job -> number of increments done on its behalf
    calls,               \* job -> number of audioFileToWordsFile invocations
    outcome,             \* job -> "none" | "ok" | "error"
    outputFiles,         \* output path -> input path whose transcript it holds
    leftQueued,          \* jobs still queued when the submission loop ended
    destroyed            \* the objects of main destroyed so far

vars == << FLAGS_input_audio_files, FLAGS_input_audio_file_of_paths,
           FLAGS_transitions_file, FLAGS_max_num_threads, disk, pc,
           inputFiles, inputFileCount, dnnModule, tokens, nTokens,
           decoderOptions, transitions, decoderFactory, errorMessage,
           poolCreated, tasks, stop, worker, jobs, enqueueLog,
           processedFilesCount,
           prossesingFileNumber, increments, calls, outcome, outputFiles,
           leftQueued, destroyed >>

(***************************************************************************)
(* Bounds of the model.                                                    *)
(***************************************************************************)
\* characters of the inline list plus characters of the file of paths, in the
\* runs of the whole program
MaxInputChars == 2
\* characters of the inline list plus characters of the file of paths, in the
\* runs of the input enumeration alone
MaxListChars == 6
\* characters of the tokens file
MaxTokenChars == 2
\* largest pool size tried
MaxThreads == 2

\* std::string::npos, here the largest 32-bit integer
npos == 2147483647

Min(a, b) == IF a < b THEN a ELSE b

Strings(alphabet, n) == UNION { [1..k -> alphabet] : k \in 0..n }

NL == "\n"
Delimiters == {",", ";"}
InlineAlphabet == {"a", "/", ",", ";"}
PathsAlphabet == {"a", "/", NL}
TokensAlphabet == {"t", NL}

(***************************************************************************)
(* std::string operations used by main, with 0-based positions.            *)
(***************************************************************************)
\* s.find_first_of(chars, start)
find_first_of(s, chars, start) ==
    LET hits == { p \in start..(Len(s) - 1) : s[p + 1] \in chars }
    IN  IF hits = {} THEN npos
        ELSE CHOOSE p \in hits : \A q \in hits : p <= q

\* s.substr(start, count), for start <= s.size()
substr(s, start, count) ==
    SubSeq(s, start + 1, start + Min(count, Len(s) - start))

\* The loop of lines 127-137 from the iteration that begins at `start`.
RECURSIVE TokenizeFrom(_, _, _)
TokenizeFrom(s, start, delims) ==
    LET pos == find_first_of(s, delims, start)
        token == substr(s, start, pos - start)
        kept == IF Len(token) > 0 THEN << token >> ELSE << >>
    IN  IF pos = npos THEN kept
        ELSE kept \o TokenizeFrom(s, pos + 1, delims)

\* std::getline(stream, line) repeated until it fails, from offset `at`.
RECURSIVE GetLines(_, _)
GetLines(content, at) ==
    IF at >= Len(content) THEN << >>
    ELSE LET nl == find_first_of(content, {NL}, at)
         IN  IF nl = npos
             THEN << SubSeq(content, at + 1, Len(content)) >>
             ELSE << SubSeq(content, at + 1, nl) >> \o GetLines(content, nl + 1)

(***************************************************************************)
(* Path helpers.  GetFullPath and getFileName live in Util.h.              *)
(***************************************************************************)
FLAGS_input_files_base_path == << "." >>
FLAGS_output_files_base_path == << "." >>
FLAGS_feature_module_file == << "feature_extractor.bin" >>
FLAGS_acoustic_module_file == << "acoustic_model.bin" >>
FLAGS_tokens_file == << "tokens.txt" >>
FLAGS_lexicon_file == << "lexicon.txt" >>
FLAGS_language_model_file == << "language_model.bin" >>
FLAGS_decoder_options_file == << "decoder_options.json" >>
TransitionsFileName == << "transitions.bin" >>
FileOfPathsName == << "list.txt" >>

\* a file name that is a full path is returned as is, else path/fileName
GetFullPath(fileName, path) ==
    IF Len(fileName) > 0 /\ fileName[1] = "/" THEN fileName
    ELSE path \o << "/" >> \o fileName

\* the part of the path after its last separator
getFileName(path) ==
    LET seps == { p \in 0..(Len(path) - 1) : path[p + 1] = "/" }
    IN  IF seps = {} THEN path
        ELSE LET last == CHOOSE p \in seps : \A q \in seps : q <= p
             IN  substr(path, last + 1, Len(path) - last)

\* lines 112-114
GetInputFileFullPath(fileName) ==
    GetFullPath(fileName, FLAGS_input_files_base_path)

\* lines 116-119
GetOutputFileFullPathNoBaseName(fileName) ==
    GetFullPath(fileName, FLAGS_output_files_base_path) \o << ".txt" >>

GetOutputFileFullPath(fileName) ==
    GetFullPath(getFileName(fileName), FLAGS_output_files_base_path)
        \o << ".txt" >>

(***************************************************************************)
(* The files of the run.  A file is looked up by the last component of     *)
(* the path it is opened with.                                             *)
(***************************************************************************)
SetupFiles == { "feature_extractor.bin", "acoustic_model.bin", "tokens.txt",
                "decoder_options.json", "transitions.bin", "lexicon.txt",
                "language_model.bin" }
DiskFiles == SetupFiles \cup { "list.txt" }

Absent == [exists |-> FALSE, content |-> << >>]
Present(content) == [exists |-> TRUE, content |-> content]

\* std::ifstream(path).is_open()
is_open(path) == disk[path[Len(path)]].exists
ContentOf(path) == disk[path[Len(path)]].content

NominalInlineList == << "a", ",", "/", "a" >>
NominalTokens == << "t", NL, "t", NL >>
TransitionsInFile == << "w" >>
ParsedOptions == "options"

\* the state of construction, the flags and the disk left to the caller
InitProgram ==
    /\ pc = "inline"
    /\ inputFiles = << >>
    /\ inputFileCount = 0
    /\ dnnModule = << >>
    /\ tokens = << >>
    /\ nTokens = 0
    /\ decoderOptions = "default"
    /\ transitions = << >>
    /\ decoderFactory = [built |-> FALSE, transitions |-> << >>]
    /\ errorMessage = << >>
    /\ poolCreated = FALSE
    /\ tasks = << >>
    /\ stop = FALSE
    /\ worker = [w \in 1..MaxThreads |-> [st |-> "none", job |-> 0]]
    /\ jobs = << >>
    /\ enqueueLog = << >>
    /\ processedFilesCount = 0
    /\ prossesingFileNumber = << >>
    /\ increments = << >>
    /\ calls = << >>
    /\ outcome = << >>
    /\ outputFiles = << >>
    /\ leftQueued = 0
    /\ destroyed = {}

ListsOfPaths(n) ==
    { Absent } \cup { Present(c) : c \in Strings(PathsAlphabet, n) }

\* the model directory complete, no transitions file
NominalDisk(list) ==
    [f \in DiskFiles |->
        IF f = "list.txt" THEN list
        ELSE IF f = "tokens.txt" THEN Present(NominalTokens)
        ELSE IF f = "transitions.bin" THEN Absent
        ELSE Present(<< >>)]

\* runs over every inline list and file of paths, the model directory complete
InitInputs ==
    /\ FLAGS_input_audio_files \in Strings(InlineAlphabet, MaxInputChars)
    /\ FLAGS_input_audio_file_of_paths \in { << >>, FileOfPathsName }
    /\ FLAGS_transitions_file = << >>
    /\ FLAGS_max_num_threads \in 1..MaxThreads
    /\ \E list \in
            IF FLAGS_input_audio_file_of_paths = << >> THEN { Absent }
            ELSE ListsOfPaths(MaxInputChars - Len(FLAGS_input_audio_files)) :
          disk = NominalDisk(list)

\* runs over every model directory, the input list fixed
InitSetup ==
    /\ FLAGS_input_audio_files = NominalInlineList
    /\ FLAGS_input_audio_file_of_paths = << >>
    /\ FLAGS_transitions_file \in { << >>, TransitionsFileName }
    /\ FLAGS_max_num_threads \in 1..MaxThreads
    /\ \E there \in SUBSET SetupFiles :
       \E tokenText \in Strings(TokensAlphabet, MaxTokenChars) :
          disk = [f \in DiskFiles |->
                    IF f \notin there THEN Absent
                    ELSE IF f = "tokens.txt" THEN Present(tokenText)
                    ELSE IF f = "transitions.bin"
                        THEN Present(TransitionsInFile)
                    ELSE Present(<< >>)]

Init == InitProgram /\ (InitInputs \/ InitSetup)

\* the input enumeration alone, over longer lists
InitLists ==
    /\ FLAGS_input_audio_files \in Strings(InlineAlphabet, MaxListChars)
    /\ FLAGS_input_audio_file_of_paths \in { << >>, FileOfPathsName }
    /\ FLAGS_transitions_file = << >>
    /\ FLAGS_max_num_threads = 1
    /\ \E list \in
            IF FLAGS_input_audio_file_of_paths = << >> THEN { Absent }
            ELSE ListsOfPaths(MaxListChars - Len(FLAGS_input_audio_files)) :
          disk = NominalDisk(list)

InitEnum == InitProgram /\ InitLists

flagVars == << FLAGS_input_audio_files, FLAGS_input_audio_file_of_paths,
               FLAGS_transitions_file, FLAGS_max_num_threads, disk >>
enumVars == << inputFiles, inputFileCount >>
ctxVars == << dnnModule, tokens, nTokens, decoderOptions, transitions,
              decoderFactory >>
poolVars == << poolCreated, tasks, stop, worker >>
jobVars == << jobs, enqueueLog, processedFilesCount, prossesingFileNumber, increments,
              calls, outcome, outputFiles, leftQueued, destroyed >>

(***************************************************************************)
(* Input enumeration, lines 124-149.                                       *)
(***************************************************************************)
\* lines 126-138: the tokens of the inline list
InlineTokensCommaOnly(list) ==
    IF list # << >> THEN TokenizeFrom(list, 0, {","}) ELSE << >>

InlineTokens(list) ==
    IF list # << >> THEN TokenizeFrom(list, 0, Delimiters) ELSE << >>

\* lines 140-146: the lines of the file of paths
LinesSkippingEmpty(name) ==
    IF name # << >> /\ is_open(name)
    THEN SelectSeq(GetLines(ContentOf(name), 0), LAMBDA l : l # << >>)
    ELSE << >>

FileOfPathsLines(name) ==
    IF name # << >> /\ is_open(name) THEN GetLines(ContentOf(name), 0)
    ELSE << >>

ParseInlineList ==
    /\ pc = "inline"
    /\ inputFiles' = inputFiles \o InlineTokens(FLAGS_input_audio_files)
    /\ pc' = "paths"
    /\ UNCHANGED << flagVars, inputFileCount, ctxVars, errorMessage,
                    poolVars, jobVars >>

ReadFileOfPathsStrict ==
    /\ pc = "paths"
    /\ \/ /\ FLAGS_input_audio_file_of_paths # << >>
          /\ ~is_open(FLAGS_input_audio_file_of_paths)
          /\ pc' = "fatal"
          /\ errorMessage' = << "failed to open file of paths=",
                                FLAGS_input_audio_file_of_paths >>
          /\ UNCHANGED << inputFiles, inputFileCount >>
       \/ /\ ~(/\ FLAGS_input_audio_file_of_paths # << >>
                /\ ~is_open(FLAGS_input_audio_file_of_paths))
          /\ inputFiles' =
                 inputFiles \o FileOfPathsLines(FLAGS_input_audio_file_of_paths)
          /\ inputFileCount' = Len(inputFiles')
          /\ pc' = "feature"
          /\ UNCHANGED errorMessage
    /\ UNCHANGED << flagVars, ctxVars, poolVars, jobVars >>

ReadFileOfPaths ==
    /\ pc = "paths"
    /\ inputFiles' =
           inputFiles \o FileOfPathsLines(FLAGS_input_audio_file_of_paths)
    /\ inputFileCount' = Len(inputFiles')
    /\ pc' = "feature"
    /\ UNCHANGED << flagVars, ctxVars, errorMessage, poolVars, jobVars >>

(***************************************************************************)
(* Construction of the shared inference context, lines 151-253.            *)
(***************************************************************************)
\* throw std::runtime_error(text + path + " for reading"), never caught
Throw(text, path) ==
    /\ pc' = "fatal"
    /\ errorMessage' = << text, path >>

\* lines 154-166
LoadFeatureModuleUnchecked ==
    /\ pc = "feature"
    /\ pc' = "acoustic"
    /\ UNCHANGED << flagVars, enumVars, ctxVars, errorMessage, poolVars,
                    jobVars >>

LoadFeatureModule ==
    /\ pc = "feature"
    /\ \/ /\ ~is_open(GetInputFileFullPath(FLAGS_feature_module_file))
          /\ Throw("failed to open feature file=",
                   GetInputFileFullPath(FLAGS_feature_module_file))
       \/ /\ is_open(GetInputFileFullPath(FLAGS_feature_module_file))
          /\ pc' = "acoustic"
          /\ UNCHANGED errorMessage
    /\ UNCHANGED << flagVars, enumVars, ctxVars, poolVars, jobVars >>

\* lines 168-184: the acoustic module, then both modules strung together
LoadAcousticModule ==
    /\ pc = "acoustic"
    /\ \/ /\ ~is_open(GetInputFileFullPath(FLAGS_acoustic_module_file))
          /\ Throw("failed to open acoustic model file=",
                   GetInputFileFullPath(FLAGS_feature_module_file))
          /\ UNCHANGED dnnModule
       \/ /\ is_open(GetInputFileFullPath(FLAGS_acoustic_module_file))
          /\ dnnModule' = << "featureModule", "acousticModule" >>
          /\ pc' = "tokens"
          /\ UNCHANGED errorMessage
    /\ UNCHANGED << flagVars, enumVars, tokens, nTokens, decoderOptions,
                    transitions, decoderFactory, poolVars, jobVars >>

\* lines 195-198: every line of the tokens file is pushed back
TokenLinesNonEmpty(path) ==
    SelectSeq(GetLines(ContentOf(path), 0), LAMBDA l : l # << >>)

TokenLines(path) == GetLines(ContentOf(path), 0)

\* lines 186-201
LoadTokens ==
    /\ pc = "tokens"
    /\ \/ /\ ~is_open(GetInputFileFullPath(FLAGS_tokens_file))
          /\ Throw("failed to open tokens file=",
                   GetInputFileFullPath(FLAGS_tokens_file))
          /\ UNCHANGED << tokens, nTokens >>
       \/ /\ is_open(GetInputFileFullPath(FLAGS_tokens_file))
          /\ tokens' = TokenLines(GetInputFileFullPath(FLAGS_tokens_file))
          /\ nTokens' = Len(tokens')
          /\ pc' = "options"
          /\ UNCHANGED errorMessage
    /\ UNCHANGED << flagVars, enumVars, dnnModule, decoderOptions,
                    transitions, decoderFactory, poolVars, jobVars >>

\* lines 203-225
LoadDecoderOptions ==
    /\ pc = "options"
    /\ \/ /\ ~is_open(GetInputFileFullPath(FLAGS_decoder_options_file))
          /\ Throw("failed to open decoder options file=",
                   GetInputFileFullPath(FLAGS_decoder_options_file))
          /\ UNCHANGED decoderOptions
       \/ /\ is_open(GetInputFileFullPath(FLAGS_decoder_options_file))
          /\ decoderOptions' = ParsedOptions
          /\ pc' = "transitions"
          /\ UNCHANGED errorMessage
    /\ UNCHANGED << flagVars, enumVars, dnnModule, tokens, nTokens,
                    transitions, decoderFactory, poolVars, jobVars >>

\* lines 227-239
LoadTransitionsLenient ==
    /\ pc = "transitions"
    /\ transitions' =
           IF /\ FLAGS_transitions_file # << >>
              /\ is_open(GetInputFileFullPath(FLAGS_transitions_file))
           THEN ContentOf(GetInputFileFullPath(FLAGS_transitions_file))
           ELSE << >>
    /\ pc' = "decoder"
    /\ UNCHANGED << flagVars, enumVars, dnnModule, tokens, nTokens,
                    decoderOptions, decoderFactory, errorMessage, poolVars,
                    jobVars >>

LoadTransitions ==
    /\ pc = "transitions"
    /\ \/ /\ FLAGS_transitions_file = << >>
          /\ pc' = "decoder"
          /\ UNCHANGED << transitions, errorMessage >>
       \/ /\ FLAGS_transitions_file # << >>
          /\ ~is_open(GetInputFileFullPath(FLAGS_transitions_file))
          /\ Throw("failed to open transition parameter file=",
                   GetInputFileFullPath(FLAGS_transitions_file))
          /\ UNCHANGED transitions
       \/ /\ FLAGS_transitions_file # << >>
          /\ is_open(GetInputFileFullPath(FLAGS_transitions_file))
          /\ transitions' =
                 ContentOf(GetInputFileFullPath(FLAGS_transitions_file))
          /\ pc' = "decoder"
          /\ UNCHANGED errorMessage
    /\ UNCHANGED << flagVars, enumVars, dnnModule, tokens, nTokens,
                    decoderOptions, decoderFactory, poolVars, jobVars >>

\* the DecoderFactory constructor reads the tokens, lexicon and language model
DecoderFactoryFiles ==
    { GetInputFileFullPath(FLAGS_tokens_file),
      GetInputFileFullPath(FLAGS_lexicon_file),
      GetInputFileFullPath(FLAGS_language_model_file) }

\* lines 241-253
CreateDecoderDeferred ==
    /\ pc = "decoder"
    /\ pc' = "pool"
    /\ UNCHANGED << flagVars, enumVars, ctxVars, errorMessage, poolVars,
                    jobVars >>

CreateDecoder ==
    /\ pc = "decoder"
    /\ \/ /\ \E f \in DecoderFactoryFiles :
                /\ ~is_open(f)
                /\ Throw("DecoderFactory", f)
          /\ UNCHANGED decoderFactory
       \/ /\ \A f \in DecoderFactoryFiles : is_open(f)
          /\ decoderFactory' = [built |-> TRUE, transitions |-> transitions]
          /\ pc' = "pool"
          /\ UNCHANGED errorMessage
    /\ UNCHANGED << flagVars, enumVars, dnnModule, tokens, nTokens,
                    decoderOptions, transitions, poolVars, jobVars >>

(***************************************************************************)
(* The thread pool of threadpool/ThreadPool.h: a fixed set of workers      *)
(* draining one FIFO queue; its destructor stops the pool and joins the    *)
(* workers once the queue is drained.                                      *)
(***************************************************************************)
Workers == 1..FLAGS_max_num_threads
Idle == [st |-> "idle", job |-> 0]

\* ThreadPool pool(threads)
ThreadPoolCreate(threads) ==
    /\ poolCreated' = TRUE
    /\ tasks' = << >>
    /\ stop' = FALSE
    /\ worker' = [w \in 1..MaxThreads |->
                     IF w <= threads THEN Idle ELSE worker[w]]

\* pool.enqueue(job)
enqueue(job) == tasks' = Append(tasks, job)

\* the end of a job inside a worker: an error of the job stops at this
\* boundary and the worker goes back to the queue
JobBoundaryUncaught(w, threw) ==
    worker' = [worker EXCEPT ![w] =
                  IF threw THEN [st |-> "dead", job |-> 0] ELSE Idle]

JobBoundary(w, threw) == worker' = [worker EXCEPT ![w] = Idle]

\* a worker that finds the pool stopped and the queue empty returns
WorkerReturns(w) ==
    /\ poolCreated
    /\ w \in Workers
    /\ worker[w].st = "idle"
    /\ stop
    /\ tasks = << >>
    /\ worker' = [worker EXCEPT ![w].st = "exited"]
    /\ UNCHANGED << flagVars, pc, enumVars, ctxVars, errorMessage,
                    poolCreated, tasks, stop, jobVars >>

\* a worker pops the job at the head of the queue
WorkerTakes(w) ==
    /\ poolCreated
    /\ w \in Workers
    /\ worker[w].st = "idle"
    /\ tasks # << >>
    /\ worker' = [worker EXCEPT ![w] = [st |-> "begin", job |-> Head(tasks)]]
    /\ tasks' = Tail(tasks)
    /\ UNCHANGED << flagVars, pc, enumVars, ctxVars, errorMessage,
                    poolCreated, stop, jobVars >>

\* ~ThreadPool(): stop, wake every worker, join them
ThreadPoolStop == stop' = TRUE

ThreadPoolJoined ==
    \A w \in Workers : worker[w].st \in { "exited", "dead" }

(***************************************************************************)
(* The conversion block, lines 255-298.                                    *)
(***************************************************************************)
\* lines 255-263
CreateThreadPoolWithoutWorkers ==
    /\ pc = "pool"
    /\ ThreadPoolCreate(0)
    /\ processedFilesCount' = 0
    /\ pc' = "submit"
    /\ UNCHANGED << flagVars, enumVars, ctxVars, errorMessage, jobs,
                    enqueueLog, prossesingFileNumber, increments, calls,
                    outcome, outputFiles, leftQueued, destroyed >>

CreateThreadPool ==
    /\ pc = "pool"
    /\ ThreadPoolCreate(FLAGS_max_num_threads)
    /\ processedFilesCount' = 0
    /\ pc' = "submit"
    /\ UNCHANGED << flagVars, enumVars, ctxVars, errorMessage, jobs,
                    enqueueLog, prossesingFileNumber, increments, calls,
                    outcome, outputFiles, leftQueued, destroyed >>

\* line 265: the range-for has an element left
LoopHasNextSkippingLast == Len(jobs) + 1 < Len(inputFiles)

LoopHasNext == Len(jobs) < Len(inputFiles)

\* lines 265-297: one iteration of the submission loop
Enqueue ==
    /\ pc = "submit"
    /\ LoopHasNext
    /\ LET inputFile == inputFiles[Len(jobs) + 1]
           closure == [inputFilePath |-> GetInputFileFullPath(inputFile),
                       outputFilePath |-> GetOutputFileFullPath(inputFile),
                       dnnModule |-> dnnModule,
                       decoderFactory |-> decoderFactory,
                       nTokens |-> nTokens,
                       inputFileCount |-> inputFileCount]
       IN  /\ enqueueLog' = Append(enqueueLog, inputFile)
           /\ jobs' = Append(jobs, closure)
           /\ enqueue(Len(jobs) + 1)
    /\ prossesingFileNumber' = Append(prossesingFileNumber, 0)
    /\ increments' = Append(increments, 0)
    /\ calls' = Append(calls, 0)
    /\ outcome' = Append(outcome, "none")
    /\ UNCHANGED << flagVars, pc, enumVars, ctxVars, errorMessage,
                    poolCreated, stop, worker, processedFilesCount,
                    outputFiles, leftQueued, destroyed >>

\* line 279: ++processedFilesCount, one atomic read-modify-write
PostIncrement(count) == [count |-> count + 1, value |-> count]

PreIncrement(count) == [count |-> count + 1, value |-> count + 1]

\* lines 279-286: the job takes its progress number and reports it
JobBegins(w) ==
    /\ poolCreated
    /\ w \in Workers
    /\ worker[w].st = "begin"
    /\ LET j == worker[w].job
           inc == PreIncrement(processedFilesCount)
       IN  /\ processedFilesCount' = inc.count
           /\ prossesingFileNumber' =
                  [prossesingFileNumber EXCEPT ![j] = inc.value]
           /\ increments' = [increments EXCEPT ![j] = @ + 1]
    /\ worker' = [worker EXCEPT ![w].st = "call"]
    /\ UNCHANGED << flagVars, pc, enumVars, ctxVars, errorMessage,
                    poolCreated, tasks, stop, jobs, enqueueLog, calls,
                    outcome, outputFiles, leftQueued, destroyed >>

\* how a transcription ends: with the transcript written, with an input that
\* cannot be read and nothing written, or with an error that leaves a partial
\* output file
TranscriptionResults == { "ok", "unreadable", "failed" }

\* audioFileToWordsFile(in, out, ...): the transcript of `in` written to `out`
audioFileToWordsFile(inputFilePath, outputFilePath, result) ==
    outputFiles' =
        IF result = "unreadable" THEN outputFiles
        ELSE [p \in DOMAIN outputFiles \cup { outputFilePath } |->
                 IF p # outputFilePath THEN outputFiles[p]
                 ELSE IF result = "ok" THEN inputFilePath
                 ELSE << "partial" >>]

\* lines 288-295: the transcription call, then the end of the job
JobCallsWritingOptions(w) ==
    /\ poolCreated
    /\ w \in Workers
    /\ worker[w].st = "call"
    /\ LET j == worker[w].job
       IN  \E result \in TranscriptionResults :
              /\ audioFileToWordsFile(
                     jobs[j].inputFilePath, jobs[j].outputFilePath, result)
              /\ calls' = [calls EXCEPT ![j] = @ + 1]
              /\ outcome' = [outcome EXCEPT ![j] =
                                IF result = "ok" THEN "ok" ELSE "error"]
              /\ JobBoundary(w, result # "ok")
    /\ decoderOptions' = jobs[worker[w].job].inputFilePath
    /\ UNCHANGED << flagVars, pc, enumVars, dnnModule, tokens, nTokens,
                    transitions, decoderFactory, errorMessage,
                    poolCreated, tasks, stop, jobs, enqueueLog,
                    processedFilesCount, prossesingFileNumber, increments,
                    leftQueued, destroyed >>

JobCalls(w) ==
    /\ poolCreated
    /\ w \in Workers
    /\ worker[w].st = "call"
    /\ LET j == worker[w].job
       IN  \E result \in TranscriptionResults :
              /\ audioFileToWordsFile(
                     jobs[j].inputFilePath, jobs[j].outputFilePath, result)
              /\ calls' = [calls EXCEPT ![j] = @ + 1]
              /\ outcome' = [outcome EXCEPT ![j] =
                                IF result = "ok" THEN "ok" ELSE "error"]
              /\ JobBoundary(w, result # "ok")
    /\ UNCHANGED << flagVars, pc, enumVars, ctxVars, errorMessage,
                    poolCreated, tasks, stop, jobs, enqueueLog,
                    processedFilesCount, prossesingFileNumber, increments,
                    leftQueued, destroyed >>

\* line 298: the block is left without tearing the pool down
LeaveConversionBlockDetached ==
    /\ pc = "submit"
    /\ ~LoopHasNext
    /\ leftQueued' = Len(tasks)
    /\ destroyed' = destroyed \cup { "decoderOptions" }
    /\ pc' = "done"
    /\ UNCHANGED << flagVars, enumVars, ctxVars, errorMessage, poolVars,
                    jobs, enqueueLog, processedFilesCount,
                    prossesingFileNumber, increments, calls, outcome,
                    outputFiles >>

\* line 298: the loop is over and the objects of the block are destroyed in
\* the reverse order of their declarations: processedFilesCount (line 262)
\* first, then the pool (line 260), whose destructor stops and joins it.  The
\* counter's destructor is trivial and its storage stays until the block is
\* left, so an increment that comes later finds the integer where it was.
LeaveConversionBlock ==
    /\ pc = "submit"
    /\ ~LoopHasNext
    /\ leftQueued' = Len(tasks)
    /\ destroyed' = destroyed \cup { "processedFilesCount" }
    /\ ThreadPoolStop
    /\ pc' = "teardown"
    /\ UNCHANGED << flagVars, enumVars, ctxVars, errorMessage, poolCreated,
                    tasks, worker, jobs, enqueueLog, processedFilesCount,
                    prossesingFileNumber, increments, calls, outcome,
                    outputFiles >>

\* lines 298-299: the pool's destructor returns, main ends and the objects
\* of its outer scope, decoderOptions (line 203) among them, are destroyed
TeardownReturns ==
    /\ pc = "teardown"
    /\ ThreadPoolJoined
    /\ poolCreated' = FALSE
    /\ destroyed' = destroyed \cup { "pool", "decoderOptions" }
    /\ pc' = "done"
    /\ UNCHANGED << flagVars, enumVars, ctxVars, errorMessage, tasks, stop,
                    worker, jobs, enqueueLog, processedFilesCount,
                    prossesingFileNumber, increments, calls, outcome,
                    outputFiles, leftQueued >>

Main ==
    \/ ParseInlineList
    \/ ReadFileOfPaths
    \/ LoadFeatureModule
    \/ LoadAcousticModule
    \/ LoadTokens
    \/ LoadDecoderOptions
    \/ LoadTransitions
    \/ CreateDecoder
    \/ CreateThreadPool
    \/ Enqueue
    \/ LeaveConversionBlock
    \/ TeardownReturns

Next ==
    \/ Main
    \/ \E w \in 1..MaxThreads :
          WorkerTakes(w) \/ JobBegins(w) \/ JobCalls(w) \/ WorkerReturns(w)

Spec == Init /\ [][Next]_vars

\* the input enumeration of lines 124-149 alone
NextEnum == ParseInlineList \/ ReadFileOfPaths

SpecEnum == InitEnum /\ [][NextEnum]_vars

(***************************************************************************)
(* Properties.                                                             *)
(***************************************************************************)
JobIds == 1..Len(jobs)
AllSubmitted == Len(jobs) = Len(inputFiles)
Finished(j) == outcome[j] # "none"
RunningJobs == { worker[w].job : w \in { v \in 1..MaxThreads :
                                           worker[v].st \in {"begin", "call"} } }

\* C1: for every pool size N >= 1 and every list of submitted jobs, the pool
\* teardown at the end of the conversion block does not return, and main does
\* not reach its end, until every submitted job, the jobs still queued when
\* the submission loop ended included, has finished audioFileToWordsFile.
C1_TeardownWaitsForAllJobs ==
    (FLAGS_max_num_threads >= 1 /\ pc = "done") =>
        /\ AllSubmitted
        /\ tasks = << >>
        /\ RunningJobs = {}
        /\ \A j \in JobIds : Finished(j)

\* a run that ended with two jobs of which some were still queued when the
\* submission loop ended
C1_Witness ==
    /\ pc = "done"
    /\ Len(jobs) = 2
    /\ leftQueued >= 1
    /\ \A j \in JobIds : Finished(j)

\* the part of a path after its last "/", by positions
BaseNameOf(path) ==
    LET n == Len(path)
        cut == CHOOSE k \in 0..n :
                  /\ k = 0 \/ path[k] = "/"
                  /\ \A i \in (k + 1)..n : path[i] # "/"
    IN  [i \in 1..(n - cut) |-> path[cut + i]]

OutputNameOf(inputFile) ==
    FLAGS_output_files_base_path \o << "/" >> \o BaseNameOf(inputFile)
        \o << ".txt" >>

SucceededJobs == { j \in JobIds : outcome[j] = "ok" }

\* C2, as claimed: after a completed run of K inputs, each naming a file,
\* in which every transcription succeeded, there are exactly K distinct
\* output files, one per input.
C2_AsClaimed_KDistinctOutputFiles ==
    (FLAGS_max_num_threads >= 1 /\ pc = "done"
        /\ SucceededJobs = 1..Len(inputFiles)
        /\ \A j \in 1..Len(inputFiles) : BaseNameOf(inputFiles[j]) # << >>) =>
        Cardinality(DOMAIN outputFiles) = Len(inputFiles)

\* C2, amended: for every N >= 1, after a completed run every output file is
\* <output base path>/<basename(input)>.txt of some input, and every input
\* whose transcription succeeded has that file; when all transcriptions
\* succeed there is one output file per distinct basename: inputs that share
\* a basename, or are listed twice, share one output file.
C2_OneOutputFilePerBasename ==
    (FLAGS_max_num_threads >= 1 /\ pc = "done") =>
        /\ { OutputNameOf(inputFiles[j]) : j \in SucceededJobs }
               \subseteq DOMAIN outputFiles
        /\ DOMAIN outputFiles
               \subseteq { OutputNameOf(inputFiles[j]) : j \in JobIds }
        /\ SucceededJobs = JobIds =>
               Cardinality(DOMAIN outputFiles) =
                   Cardinality({ BaseNameOf(inputFiles[j]) : j \in JobIds })

\* a completed run of two successful jobs whose inputs share a basename
C2_Witness ==
    /\ pc = "done"
    /\ Len(inputFiles) = 2
    /\ SucceededJobs = {1, 2}
    /\ inputFiles[1] # inputFiles[2]
    /\ BaseNameOf(inputFiles[1]) = BaseNameOf(inputFiles[2])
    /\ Cardinality(DOMAIN outputFiles) = 1

BegunJobs == { j \in JobIds : increments[j] > 0 }

\* C3: the values the jobs capture from the pre-increment of
\* processedFilesCount are pairwise distinct and are exactly 1..(number of
\* jobs begun) at every moment; after a run of K jobs they are a permutation
\* of 1..K, under every interleaving and every pool size.
C3_ProgressNumbersArePermutation ==
    /\ { prossesingFileNumber[j] : j \in BegunJobs } =
           1..Cardinality(BegunJobs)
    /\ \A i, j \in BegunJobs :
           prossesingFileNumber[i] = prossesingFileNumber[j] => i = j
    /\ pc = "done" =>
           { prossesingFileNumber[j] : j \in JobIds } = 1..Len(inputFiles)

\* a completed run on two workers where the job submitted first captured 2
C3_Witness ==
    /\ pc = "done"
    /\ FLAGS_max_num_threads = 2
    /\ Len(jobs) = 2
    /\ prossesingFileNumber = << 2, 1 >>

Positions == << "inline", "paths", "feature", "acoustic", "tokens", "options",
                "transitions", "decoder", "pool", "submit", "teardown",
                "done" >>
PositionsAfter(position) ==
    LET at == CHOOSE k \in 1..Len(Positions) : Positions[k] = position
    IN  { Positions[k] : k \in (at + 1)..Len(Positions) }

Exists(name) == disk[name].exists
NothingStarted ==
    /\ ~poolCreated
    /\ \A w \in 1..MaxThreads : worker[w].st = "none"
    /\ jobs = << >>
    /\ enqueueLog = << >>
    /\ tasks = << >>
    /\ processedFilesCount = 0
    /\ outputFiles = << >>

\* C5: when a required setup file (feature module, acoustic module, tokens,
\* decoder options, or a named transitions file) cannot be opened, main never
\* gets past the step that opens it, and the fatal error it ends with comes
\* before the thread pool exists: no job is enqueued, none starts, and no
\* output file is written.
C5_SetupFailureIsFatalBeforePool ==
    /\ ~Exists("feature_extractor.bin") => pc \notin PositionsAfter("feature")
    /\ ~Exists("acoustic_model.bin") => pc \notin PositionsAfter("acoustic")
    /\ ~Exists("tokens.txt") => pc \notin PositionsAfter("tokens")
    /\ ~Exists("decoder_options.json") => pc \notin PositionsAfter("options")
    /\ (FLAGS_transitions_file # << >> /\ ~Exists("transitions.bin")) =>
           pc \notin PositionsAfter("transitions")
    /\ pc \notin PositionsAfter("pool") => NothingStarted

\* main died on a named transitions file that is missing, with inputs
\* enumerated and nothing started
C5_Witness ==
    /\ pc = "fatal"
    /\ inputFiles # << >>
    /\ FLAGS_transitions_file # << >>
    /\ ~Exists("transitions.bin")
    /\ errorMessage[1] = "failed to open transition parameter file="
    /\ NothingStarted

\* the maximal non-empty delimiter-free runs of a string, as << first, last >>
MaximalRuns(s) ==
    { r \in (1..Len(s)) \X (1..Len(s)) :
        /\ r[1] <= r[2]
        /\ \A i \in r[1]..r[2] : s[i] \notin {",", ";"}
        /\ r[1] = 1 \/ s[r[1] - 1] \in {",", ";"}
        /\ r[2] = Len(s) \/ s[r[2] + 1] \in {",", ";"} }

\* the runs as strings, from left to right
TokensOf(s) ==
    LET runs == MaximalRuns(s)
        nth(k) == CHOOSE r \in runs :
                     Cardinality({ q \in runs : q[1] < r[1] }) = k - 1
    IN  [k \in 1..Cardinality(runs) |-> SubSeq(s, nth(k)[1], nth(k)[2])]

\* C6: the entries enumerated from the inline list are exactly its maximal
\* non-empty substrings free of ',' and ';', from left to right: empty tokens
\* from leading, trailing or adjacent delimiters are dropped and both
\* delimiters are accepted.
C6_InlineListTokens ==
    pc = "paths" => inputFiles = TokensOf(FLAGS_input_audio_files)

\* the inline list "a,a;,/" (a comma, a semicolon, an empty token) enumerated
C6_Witness ==
    /\ pc = "paths"
    /\ FLAGS_input_audio_files = << "a", ",", "a", ";", ",", "/" >>
    /\ inputFiles = << << "a" >>, << "a" >>, << "/" >> >>

\* the lines of a text: the pieces between newlines, the piece after the last
\* newline being a line only when it is not empty
LinesOf(text) ==
    LET newlines == { p \in 1..Len(text) : text[p] = NL }
        ends == newlines \cup
                    (IF Len(text) > 0 /\ text[Len(text)] # NL
                     THEN { Len(text) + 1 } ELSE {})
        end(k) == CHOOSE e \in ends :
                     Cardinality({ q \in ends : q < e }) = k - 1
        begin(k) == IF k = 1 THEN 1 ELSE end(k - 1) + 1
    IN  [k \in 1..Cardinality(ends) |-> SubSeq(text, begin(k), end(k) - 1)]

FileOfPathsText ==
    IF FLAGS_input_audio_file_of_paths # << >> /\ Exists("list.txt")
    THEN disk["list.txt"].content
    ELSE << >>

ExpectedInputs == TokensOf(FLAGS_input_audio_files) \o LinesOf(FileOfPathsText)

\* C7: the enumerated inputs are the tokens of the inline list followed by the
\* lines of the file of paths, every line verbatim and an empty line included,
\* nothing removed or reordered; the jobs are submitted one per entry in that
\* order, and the submission loop ends with one job per entry.
C7_InputsAreInlineThenFileLines ==
    /\ pc \notin {"inline", "paths"} =>
           /\ inputFiles = ExpectedInputs
           /\ inputFileCount = Len(inputFiles)
    /\ Len(enqueueLog) = Len(jobs)
    /\ Len(jobs) <= Len(inputFiles)
    /\ enqueueLog = SubSeq(inputFiles, 1, Len(jobs))
    /\ pc \in {"teardown", "done"} => enqueueLog = inputFiles

\* a completed run over one inline token followed by an empty line of the
\* file of paths
C7_Witness ==
    /\ pc = "done"
    /\ FLAGS_input_audio_files = << "a" >>
    /\ FileOfPathsText = << NL >>
    /\ enqueueLog = << << "a" >>, << >> >>

TokensText == disk["tokens.txt"].content

\* the lines of a text that hold at least one character
NonEmptyLineCount(text) ==
    Cardinality({ p \in 1..Len(text) :
                    text[p] # NL /\ (p = 1 \/ text[p - 1] = NL) })

\* the lines of a text, empty ones included
LineCount(text) ==
    Cardinality({ p \in 1..Len(text) : text[p] = NL })
        + (IF Len(text) > 0 /\ text[Len(text)] # NL THEN 1 ELSE 0)

\* C8, as claimed: the token count passed to every job is the number of
\* non-empty lines of the tokens file.
C8_AsClaimed_CountsNonEmptyLines ==
    /\ pc \in PositionsAfter("tokens") =>
           nTokens = NonEmptyLineCount(TokensText)
    /\ \A j \in JobIds : jobs[j].nTokens = NonEmptyLineCount(TokensText)

\* C8, amended: the token count passed to every job is the number of lines
\* of the tokens file, its empty lines counted as well.
C8_TokenCountIsLineCount ==
    /\ pc \in PositionsAfter("tokens") => nTokens = LineCount(TokensText)
    /\ \A j \in JobIds : jobs[j].nTokens = LineCount(TokensText)

\* a job submitted with the count 2 of a tokens file made of an empty line
\* and one token
C8_Witness ==
    /\ TokensText = << NL, "t" >>
    /\ Len(jobs) >= 1
    /\ jobs[1].nTokens = 2

TransitionsFailure ==
    /\ pc = "fatal"
    /\ errorMessage[1] = "failed to open transition parameter file="

\* C9, as claimed: whenever the transitions file is absent, no name being
\* configured or the configured file not existing, setup raises no error for
\* it and goes on with an empty transition-weight vector.
C9_AsClaimed_AbsentIsNotAnError ==
    (FLAGS_transitions_file = << >> \/ ~Exists("transitions.bin")) =>
        /\ ~TransitionsFailure
        /\ transitions = << >>

\* C9, amended: when no transitions file name is configured, setup raises no
\* error for the transitions and goes on with an empty transition-weight
\* vector, which is the one given to the decoder factory; when a name is
\* configured and that file cannot be opened, main ends with a fatal error at
\* that step.
C9_UnnamedTransitionsIsNotAnError ==
    /\ FLAGS_transitions_file = << >> =>
           /\ ~TransitionsFailure
           /\ transitions = << >>
           /\ decoderFactory.transitions = << >>
    /\ (FLAGS_transitions_file # << >> /\ ~Exists("transitions.bin")) =>
           pc \notin PositionsAfter("transitions")
    /\ TransitionsFailure =>
           FLAGS_transitions_file # << >> /\ ~Exists("transitions.bin")

\* no transitions file named: the decoder factory was built on an empty
\* vector and a job has been submitted
C9_Witness ==
    /\ FLAGS_transitions_file = << >>
    /\ pc = "submit"
    /\ decoderFactory = [built |-> TRUE, transitions |-> << >>]
    /\ Len(jobs) >= 1

\* the workers holding job j
Holders(j) ==
    { w \in 1..MaxThreads :
        worker[w].st \in {"begin", "call"} /\ worker[w].job = j }
Queued(j) == { p \in 1..Len(tasks) : tasks[p] = j }

\* C10: every submitted job is executed exactly once by exactly one worker: at
\* every moment a job is queued once, or held by one worker, or finished, its
\* counter increment and its audioFileToWordsFile call happen at most once
\* and in that order, and after the run every enumerated input has had both.
C10_EachJobRunsExactlyOnce ==
    /\ \A j \in JobIds :
          /\ Cardinality(Queued(j)) + Cardinality(Holders(j))
                 + (IF Finished(j) THEN 1 ELSE 0) = 1
          /\ calls[j] <= increments[j]
          /\ increments[j] <= 1
          /\ Finished(j) <=> calls[j] = 1
          /\ Queued(j) # {} => increments[j] = 0
    /\ pc = "done" =>
          /\ AllSubmitted
          /\ \A j \in JobIds : increments[j] = 1 /\ calls[j] = 1

\* a completed run of two jobs on two workers, each job run once
C10_Witness ==
    /\ pc = "done"
    /\ FLAGS_max_num_threads = 2
    /\ Len(inputFiles) = 2
    /\ increments = << 1, 1 >>
    /\ calls = << 1, 1 >>

\* the last submitted job whose input is written to output file p
LastWriterOf(p) ==
    CHOOSE j \in JobIds :
        /\ OutputNameOf(inputFiles[j]) = p
        /\ \A i \in JobIds : OutputNameOf(inputFiles[i]) = p => i <= j

\* the output files and their contents when the jobs run one after another in
\* submission order, each transcription writing the transcript of its input
SequentialOutputs ==
    [p \in { OutputNameOf(inputFiles[j]) : j \in JobIds } |->
        GetInputFileFullPath(inputFiles[LastWriterOf(p)])]

\* C11, as claimed: for a fixed list of inputs, each naming a file, whose
\* transcriptions all succeed and write the transcript of their input, the
\* output files and the contents
\* of each after the run are the same for every pool size N >= 1 and every
\* interleaving of the workers: they are those of the run in which the jobs
\* execute one after another in submission order.
C11_AsClaimed_OutputsIndependentOfScheduling ==
    (FLAGS_max_num_threads >= 1 /\ pc = "done" /\ SucceededJobs = JobIds
        /\ \A j \in JobIds : BaseNameOf(inputFiles[j]) # << >>) =>
        outputFiles = SequentialOutputs

\* the shared inference context that setup builds from the model directory
BuiltContext ==
    [dnnModule |-> << "featureModule", "acousticModule" >>,
     decoderOptions |-> ParsedOptions,
     nTokens |-> LineCount(TokensText),
     decoderFactory |->
         [built |-> TRUE,
          transitions |-> IF FLAGS_transitions_file = << >> THEN << >>
                          ELSE disk["transitions.bin"].content]]

\* C12: from the end of setup on, the composed pipeline, the decoder factory,
\* the decoder options and the token count keep the values setup built, under
\* every step of main and of every job, and every job holds those same values
\* in its closure (the decoder options it reads through its reference).
C12_ContextIsNeverChangedAfterSetup ==
    pc \in PositionsAfter("decoder") =>
        /\ dnnModule = BuiltContext.dnnModule
        /\ decoderOptions = BuiltContext.decoderOptions
        /\ nTokens = BuiltContext.nTokens
        /\ decoderFactory = BuiltContext.decoderFactory
        /\ \A j \in JobIds :
              /\ jobs[j].dnnModule = BuiltContext.dnnModule
              /\ jobs[j].nTokens = BuiltContext.nTokens
              /\ jobs[j].decoderFactory = BuiltContext.decoderFactory

\* a completed run of two jobs on two workers, one failed and one succeeded,
\* with a transitions file loaded: the context is the one setup built
C12_Witness ==
    /\ pc = "done"
    /\ FLAGS_max_num_threads = 2
    /\ FLAGS_transitions_file # << >>
    /\ outcome = << "error", "ok" >>
    /\ decoderFactory.transitions = TransitionsInFile
    /\ decoderOptions = ParsedOptions
    /\ jobs[1].nTokens = nTokens /\ jobs[2].nTokens = nTokens

\* the pool exists, or a job has been enqueued or taken by a worker
SubmissionBegun ==
    \/ poolCreated
    \/ jobs # << >>
    \/ tasks # << >>
    \/ \E w \in 1..MaxThreads : worker[w].st # "none"

\* a step that changes a part of the context is the one step of main that
\* constructs that part, and main never goes back to an earlier position
ContextConstructionStep ==
    /\ dnnModule' # dnnModule => pc = "acoustic" /\ dnnModule = << >>
    /\ (tokens' # tokens \/ nTokens' # nTokens) => pc = "tokens"
    /\ decoderOptions' # decoderOptions => pc = "options"
    /\ transitions' # transitions => pc = "transitions"
    /\ decoderFactory' # decoderFactory =>
           pc = "decoder" /\ ~decoderFactory.built
    /\ pc' # pc => pc' \in PositionsAfter(pc) \cup { "fatal" }

\* C13: no job is enqueued or begins, and the pool does not exist, before the
\* whole context (both modules composed, tokens read, decoder options parsed,
\* transitions loaded when named, decoder factory built) is constructed; each
\* part of the context is constructed by one step of setup, taken once.
C13_ContextIsBuiltOnceBeforeAnyJob ==
    /\ [](SubmissionBegun =>
              /\ pc \in PositionsAfter("pool")
              /\ dnnModule = BuiltContext.dnnModule
              /\ tokens = LinesOf(TokensText)
              /\ nTokens = BuiltContext.nTokens
              /\ decoderOptions = BuiltContext.decoderOptions
              /\ transitions = BuiltContext.decoderFactory.transitions
              /\ decoderFactory = BuiltContext.decoderFactory)
    /\ [][ContextConstructionStep]_vars

\* a job is inside its transcription call while the submission loop is still
\* running, the context built with a transitions file
C13_Witness ==
    /\ pc = "submit"
    /\ \E w \in Workers : worker[w].st = "call"
    /\ FLAGS_transitions_file # << >>
    /\ decoderFactory = [built |-> TRUE, transitions |-> TransitionsInFile]
    /\ dnnModule = << "featureModule", "acousticModule" >>

FinishedJobs == { j \in JobIds : Finished(j) }

\* C14: with a pool of one worker at most one job is held by a worker at any
\* time, the jobs that have begun and the jobs that have finished are each the
\* first ones submitted, a job is taken only when every job submitted before
\* it has finished, and the i-th submitted job captures progress number i.
C14_OneWorkerRunsJobsInSubmissionOrder ==
    FLAGS_max_num_threads = 1 =>
        /\ Cardinality({ w \in 1..MaxThreads :
                            worker[w].st \in {"begin", "call"} }) <= 1
        /\ BegunJobs = 1..Cardinality(BegunJobs)
        /\ FinishedJobs = 1..Cardinality(FinishedJobs)
        /\ \A j \in RunningJobs : \A i \in 1..(j - 1) : Finished(i)
        /\ \A j \in BegunJobs : prossesingFileNumber[j] = j

\* one worker, the first job finished and the second inside its transcription
\* call with progress number 2, while the pool is being torn down
C14_Witness ==
    /\ FLAGS_max_num_threads = 1
    /\ pc = "teardown"
    /\ Len(jobs) = 2
    /\ Finished(1)
    /\ worker[1] = [st |-> "call", job |-> 2]
    /\ prossesingFileNumber = << 1, 2 >>

\* a step of worker thread w
WorkerStep(w) ==
    WorkerTakes(w) \/ JobBegins(w) \/ JobCalls(w) \/ WorkerReturns(w)

\* inline lists of no, one, two and three input files
FairRunLists ==
    { << >>, << "a" >>, NominalInlineList, << "a", ";", "a", ",", "/", "a" >> }

\* the runs whose termination is examined: these lists with the model
\* directory complete, and every model directory with the two-file list
InitFairRuns ==
    /\ FLAGS_input_audio_files \in FairRunLists
    /\ FLAGS_input_audio_file_of_paths = << >>
    /\ FLAGS_transitions_file = << >>
    /\ FLAGS_max_num_threads \in 1..MaxThreads
    /\ disk = NominalDisk(Absent)

InitFair == InitProgram /\ (InitFairRuns \/ InitSetup)

\* main keeps running, every worker thread is scheduled again and again, and
\* a transcription call that has begun returns
SpecFair ==
    /\ InitFair
    /\ [][Next]_vars
    /\ WF_vars(Main)
    /\ \A w \in 1..MaxThreads : WF_vars(WorkerStep(w))

\* C15: once setup has succeeded, for every pool size N >= 1 and every input
\* list, under fair scheduling the run reaches the end of main with every
\* input submitted, the queue empty, no job held by a worker and every job
\* finished.
C15_RunTerminatesAfterSetup ==
    (pc = "pool" /\ FLAGS_max_num_threads >= 1) ~>
        (/\ pc = "done"
         /\ AllSubmitted
         /\ tasks = << >>
         /\ RunningJobs = {}
         /\ \A j \in JobIds : Finished(j))

\* a completed run of three jobs on one worker, two of them still queued when
\* the submission loop ended
C15_Witness ==
    /\ pc = "done"
    /\ FLAGS_max_num_threads = 1
    /\ Len(jobs) = 3
    /\ leftQueued >= 2
    /\ tasks = << >>
    /\ \A j \in JobIds : Finished(j)

\* the runs over the values of --max_num_threads, which line 65 defines as an
\* int32 flag and nothing checks before line 260: 0 is among them
InitThreadValues ==
    /\ FLAGS_input_audio_files \in FairRunLists
    /\ FLAGS_input_audio_file_of_paths = << >>
    /\ FLAGS_transitions_file = << >>
    /\ FLAGS_max_num_threads \in 0..MaxThreads
    /\ disk = NominalDisk(Absent)

InitThreads == InitProgram /\ InitThreadValues

SpecThreads == InitThreads /\ [][Next]_vars

\* the worker threads the pool was created with
CreatedWorkers == { w \in 1..MaxThreads : worker[w].st # "none" }

\* C16, as claimed: for every value of the max_num_threads setting the pool
\* is created with at least one worker thread, so that no job is ever
\* submitted to a pool without a worker.
C16_AsClaimed_PoolHasAWorker ==
    /\ poolCreated => FLAGS_max_num_threads >= 1 /\ CreatedWorkers # {}
    /\ jobs # << >> => CreatedWorkers # {}

\* C17, as claimed: whenever a job increments processedFilesCount through its
\* reference the counter has not been destroyed, and whenever a job hands
\* decoderOptions to its transcription call through its reference the options
\* have not been destroyed, the jobs that begin while the pool is being
\* torn down included.
C17_AsClaimed_ReferencedObjectsOutliveJobs ==
    [][/\ increments' # increments => "processedFilesCount" \notin destroyed
       /\ calls' # calls => "decoderOptions" \notin destroyed]_vars

\* a file of paths is configured and cannot be opened
PathsFileUnopenable ==
    FLAGS_input_audio_file_of_paths # << >> /\ ~Exists("list.txt")

\* C18: when the configured file of paths cannot be opened, main raises no
\* error for it: the input list after enumeration is the inline entries alone,
\* unchanged and in order, the run goes on past the enumeration, and when that
\* list is empty the run ends with no job submitted and no output file.
C18_UnopenablePathsFileIsSkipped ==
    PathsFileUnopenable =>
        /\ errorMessage = << >>
        /\ pc # "fatal"
        /\ pc \in PositionsAfter("paths") =>
               /\ inputFiles = TokensOf(FLAGS_input_audio_files)
               /\ inputFileCount = Len(inputFiles)
        /\ (pc \in { "teardown", "done" }
               /\ TokensOf(FLAGS_input_audio_files) = << >>) =>
               /\ jobs = << >>
               /\ outputFiles = << >>

\* the file of paths cannot be opened and the inline list names one file: the
\* submission loop has ended with the one job of that file enqueued
C18_Witness ==
    /\ PathsFileUnopenable
    /\ pc = "teardown"
    /\ FLAGS_input_audio_files = << "a", ";" >>
    /\ inputFiles = << << "a" >> >>
    /\ enqueueLog = << << "a" >> >>

\* the setup file whose failure to open each error description announces
AnnouncedFile ==
    [text \in { "failed to open feature file=",
                "failed to open acoustic model file=",
                "failed to open tokens file=",
                "failed to open decoder options file=",
                "failed to open transition parameter file=" } |->
        IF text = "failed to open feature file="
            THEN FLAGS_feature_module_file
        ELSE IF text = "failed to open acoustic model file="
            THEN FLAGS_acoustic_module_file
        ELSE IF text = "failed to open tokens file="
            THEN FLAGS_tokens_file
        ELSE IF text = "failed to open decoder options file="
            THEN FLAGS_decoder_options_file
        ELSE FLAGS_transitions_file]

\* C19, as claimed: when the feature module, the acoustic module, the tokens,
\* the decoder options or the transitions file fails to open, the description
\* of the fatal error names the path of that same file, a file that did not
\* open.
C19_AsClaimed_ErrorNamesTheFailedFile ==
    (pc = "fatal" /\ errorMessage[1] \in DOMAIN AnnouncedFile) =>
        /\ errorMessage[2] =
               FLAGS_input_files_base_path \o << "/" >>
                   \o AnnouncedFile[errorMessage[1]]
        /\ ~Exists(errorMessage[2][Len(errorMessage[2])])

====
